---------------------------- MODULE Spec2Model ----------------------------
(***************************************************************************)
(* Model of package stdout of gdu (src/stdout/stdout.go): the non-         *)
(* interactive UI.  AnalyzePath runs the scan and the progress poller      *)
(* (updateProgress) as goroutines joined by a sync.WaitGroup, then sorts   *)
(* and prints the root's children; formatSize renders byte counts.         *)
(***************************************************************************)
EXTENDS Integers, Sequences, FiniteSets, TLC

VARIABLES
    showProgress,      \* ui.showProgress
    showApparentSize,  \* ui.showApparentSize
    useColors,         \* ui.useColors
    statErr,           \* what ui.pathChecker(abspath) answers: "nil" or an error
    fsFiles,           \* the root's children as the analyzer will find them
    snapLimit,         \* how many snapshots the analyzer publishes at most
    pc,                \* position of the AnalyzePath call (the coordinator)
    ret,               \* AnalyzePath's return value: "none" until it returns
    wait,              \* counter of the sync.WaitGroup `wait`
    dir,               \* the shared result `dir *analyze.Dir`
    printIdx,          \* index of the `for _, file := range dir.Files` loop
    output,            \* ui.output: what was written, in order
    pollerPc,          \* position of the updateProgress goroutine
    progress,          \* updateProgress' local `progress`
    i,                 \* updateProgress' spinner index `i`
    received,          \* snapshots updateProgress took from progressChan
    doneObserved,      \* completion signals updateProgress took from doneChan
    scanPc,            \* position of the scan goroutine
    emitted,           \* snapshots the analyzer has produced
    progressChan,      \* analyzer.GetProgressChan(): single slot
    doneChan,          \* analyzer.GetDoneChan(): pending completion signals
    fmtIn,             \* argument of a stand-alone formatSize call
    fmtOut,            \* its result: << >> before the call, <<r>> after
    getter,            \* what getter.GetDevicesInfo() answers: devices and error
    devPc,             \* position of the ListDevices call
    devRet,            \* ListDevices' return value: "none" until it returns
    devIdx,            \* index of the `for _, device := range devices` loop
    ignoreDirPaths,    \* ui.ignoreDirPaths: the keys of the map
    lastPaths,         \* the argument of the latest SetIgnoreDirPaths call
    setCalls,          \* SetIgnoreDirPaths calls made
    scanStarts,        \* scan goroutines AnalyzePath has started
    pollerStarts,      \* updateProgress goroutines AnalyzePath has started
    dirWrites,         \* assignments made to `dir`
    NoColor,           \* color.NoColor, the colour library's global toggle
    uis                \* the UIs CreateStdoutUI has returned, in order

vars == <<showProgress, showApparentSize, useColors, statErr, fsFiles,
          snapLimit, pc, ret,
          wait, dir, printIdx, output, pollerPc, progress, i, received,
          doneObserved, scanPc, emitted, progressChan, doneChan, fmtIn, fmtOut,
          getter, devPc, devRet, devIdx, ignoreDirPaths, lastPaths, setCalls,
          scanStarts, pollerStarts, dirWrites, NoColor, uis>>

config == <<showProgress, showApparentSize, useColors, statErr, fsFiles,
            snapLimit>>
coordVars == <<pc, ret, printIdx>>
pollerVars == <<pollerPc, progress, i, received, doneObserved>>
fmtVars == <<fmtIn, fmtOut>>
devVars == <<getter, devPc, devRet, devIdx>>
\* the state of the operations other than AnalyzePath and formatSize
ignoreVars == <<ignoreDirPaths, lastPaths, setCalls>>
countVars == <<scanStarts, pollerStarts, dirWrites>>
colorVars == <<NoColor, uis>>
extVars == <<devVars, ignoreVars, countVars, colorVars>>

-----------------------------------------------------------------------------
(* Bounds *)

\* most children of the scanned root (specification Spec)
MaxFiles == 3
\* most children of the scanned root (specification SpecSort)
MaxSortFiles == 7
\* most progress snapshots the analyzer produces in one scan
MaxSnapshots == 3
\* bytes the analyzer adds to TotalSize per counted item
BytesPerItem == 600

-----------------------------------------------------------------------------
(* Byte counts.  An int64 byte count b is the pair <<b \div 10^6, b % 10^6>>,   *)
(* so that counts beyond 10^12 stay within the model checker's integers.       *)

Million == 1000 * 1000

Int64(n) == <<n \div Million, n % Million>>

Greater(a, b) == a[1] > b[1] \/ (a[1] = b[1] /\ a[2] > b[2])

E12 == <<Million, 0>>
E9 == <<1000, 0>>
E6 == <<1, 0>>
E3 == <<0, 1000>>

\* A variant of formatSize with inclusive thresholds.
formatSizeInclusive(size) ==
    CASE Greater(size, E12) \/ size = E12 -> [unit |-> "TiB", pow2 |-> 40, of |-> size]
      [] Greater(size, E9) \/ size = E9 -> [unit |-> "GiB", pow2 |-> 30, of |-> size]
      [] Greater(size, E6) \/ size = E6 -> [unit |-> "MiB", pow2 |-> 20, of |-> size]
      [] Greater(size, E3) \/ size = E3 -> [unit |-> "KiB", pow2 |-> 10, of |-> size]
      [] OTHER -> [unit |-> "B", pow2 |-> 0, of |-> size]

\* formatSize: the text is `of / 2^pow2` (one decimal; an integer for B)
\* followed by the unit.
formatSize(size) ==
    CASE Greater(size, E12) -> [unit |-> "TiB", pow2 |-> 40, of |-> size]
      [] Greater(size, E9) -> [unit |-> "GiB", pow2 |-> 30, of |-> size]
      [] Greater(size, E6) -> [unit |-> "MiB", pow2 |-> 20, of |-> size]
      [] Greater(size, E3) -> [unit |-> "KiB", pow2 |-> 10, of |-> size]
      [] OTHER -> [unit |-> "B", pow2 |-> 0, of |-> size]

-----------------------------------------------------------------------------
(* Entries of a scan result *)

\* The kinds of children the analyzer reports: on-disk usage, apparent size,
\* directory or file, status flag (" " fine, "!" scan error, "." error below).
EntryKinds ==
    { [usage |-> 1, size |-> 2, isDir |-> FALSE, flag |-> " "],
      [usage |-> 2, size |-> 1, isDir |-> TRUE, flag |-> "!"],
      [usage |-> 2, size |-> 2, isDir |-> TRUE, flag |-> "."] }

\* The kinds used for the longer lists of SpecSort.
SortKinds ==
    { [usage |-> 1, size |-> 2, isDir |-> FALSE, flag |-> " "],
      [usage |-> 2, size |-> 1, isDir |-> TRUE, flag |-> "!"] }

\* A child list: the k-th child the analyzer returns is named k.
Named(f) ==
    [k \in 1..Len(f) |->
        [name |-> k, usage |-> f[k].usage, size |-> f[k].size,
         isDir |-> f[k].isDir, flag |-> f[k].flag]]

FileLists(n, kinds) == UNION { { Named(f) : f \in [1..m -> kinds] } : m \in 0..n }

NoDir == [isNil |-> TRUE, Files |-> << >>]

\* file.GetSize() or file.GetUsage(), as AnalyzePath picks for display
Metric(file) == IF showApparentSize THEN file.size ELSE file.usage

-----------------------------------------------------------------------------
(* sort.Sort(dir.Files) *)

\* analyze.Files.Less: descending by on-disk usage, whatever the UI's options
Less(f, a, b) == f[a].usage > f[b].usage

\* analyze.Files.Swap
Swap(f, a, b) == [f EXCEPT ![a] = f[b], ![b] = f[a]]

RECURSIVE InsertDown(_, _)
InsertDown(f, j) ==
    IF j > 1 /\ Less(f, j, j - 1) THEN InsertDown(Swap(f, j, j - 1), j - 1) ELSE f

\* sort.insertionSort
RECURSIVE insertionSort(_, _)
insertionSort(f, k) ==
    IF k > Len(f) THEN f ELSE insertionSort(InsertDown(f, k), k + 1)

\* the ShellSort pass with gap 6 that sort.quickSort makes on 12 elements or
\* fewer before it calls insertionSort
RECURSIVE shellPass(_, _)
shellPass(f, k) ==
    IF k > Len(f) THEN f
    ELSE shellPass(IF Less(f, k, k - 6) THEN Swap(f, k, k - 6) ELSE f, k + 1)

\* What sort.Sort does to 12 elements or fewer: insertion sort alone (pdqsort,
\* Go 1.19 and later), or the gap-6 pass and then insertion sort (quickSort,
\* Go 1.18 and earlier).
SortImpls == {"pdqsort", "quickSort"}

sortSort(impl, f) ==
    IF impl = "pdqsort" THEN insertionSort(f, 2)
    ELSE IF Len(f) > 1 THEN insertionSort(shellPass(f, 7), 2) ELSE f

-----------------------------------------------------------------------------
(* The output sink *)

Write(token) == output' = Append(output, token)

EraseRow == [k |-> "erase"]
Spinner(glyph) == [k |-> "spinner", glyph |-> glyph]
ProgressText(p) ==
    [k |-> "progress", items |-> p.ItemCount,
     size |-> formatSize(Int64(p.TotalSize))]
CarriageReturn == [k |-> "cr"]

\* one listing line: flag, formatted size in a field of `width`, name
Line(file) ==
    [k |-> "line", flag |-> file.flag,
     width |-> IF useColors THEN 20 ELSE 9,
     size |-> formatSize(Int64(Metric(file))),
     name |-> file.name, slash |-> file.isDir]

-----------------------------------------------------------------------------
(* The ignore set *)

\* the absolute path of the scanned root and a path outside it; the path of
\* a child of the root is the child's name
RootPath == 0
OtherPath == -1

\* ShouldDirBeIgnored: _, ok := ui.ignoreDirPaths[path]; return ok
ShouldDirBeIgnored(path) == path \in ignoreDirPaths

\* what AnalyzeDir returns of the root's children: it skips a directory for
\* which the ignore predicate answers true, and never asks about the root
Scanned(files) ==
    SelectSeq(files, LAMBDA f : ~(f.isDir /\ ShouldDirBeIgnored(f.name)))

-----------------------------------------------------------------------------
(* Initial states *)

Idle ==
    /\ pc = "check"
    /\ ret = "none"
    /\ wait = 0
    /\ dir = NoDir
    /\ printIdx = 0
    /\ output = << >>
    /\ pollerPc = "notStarted"
    /\ progress = [ItemCount |-> 0, TotalSize |-> 0]
    /\ i = 0
    /\ received = 0
    /\ doneObserved = 0
    /\ scanPc = "notStarted"
    /\ emitted = 0
    /\ progressChan = << >>
    /\ doneChan = 0

\* ListDevices has not been called
DevIdle ==
    /\ getter = [err |-> "nil", devices |-> << >>]
    /\ devPc = "start"
    /\ devRet = "none"
    /\ devIdx = 0

\* SetIgnoreDirPaths has not been called: the map is nil, no key is found
IgnoreIdle ==
    /\ ignoreDirPaths = {}
    /\ lastPaths = << >>
    /\ setCalls = 0

\* AnalyzePath has started nothing and assigned nothing
CountIdle ==
    /\ scanStarts = 0
    /\ pollerStarts = 0
    /\ dirWrites = 0

\* the fields CreateStdoutUI stores from its arguments
NewUI(colors, progressBar, apparent) ==
    [useColors |-> colors, showProgress |-> progressBar,
     showApparentSize |-> apparent]

\* the one UI of the run has been created, on a terminal that shows colours
Created ==
    /\ uis = <<NewUI(useColors, showProgress, showApparentSize)>>
    /\ NoColor = ~useColors

ExtIdle == DevIdle /\ IgnoreIdle /\ CountIdle /\ Created

Init ==
    /\ showProgress \in BOOLEAN
    /\ showApparentSize \in BOOLEAN
    /\ useColors \in BOOLEAN
    /\ statErr \in {"nil", "ENOENT"}
    /\ fsFiles \in FileLists(MaxFiles, EntryKinds)
    /\ snapLimit = MaxSnapshots
    /\ Idle
    /\ fmtIn = <<0, 0>>
    /\ fmtOut = << >>
    /\ ExtIdle

-----------------------------------------------------------------------------
(* AnalyzePath: the coordinator *)

\* A variant of CheckPath that drops the error.
CheckPathIgnoringErr ==
    /\ pc = "check"
    /\ pc' = "spawnPoller"
    /\ UNCHANGED <<config, ret, wait, dir, printIdx, output, pollerVars, scanPc,
                   emitted, progressChan, doneChan, fmtVars, extVars>>

\* _, err := ui.pathChecker(abspath); if err != nil { return err }
CheckPath ==
    /\ pc = "check"
    /\ IF statErr # "nil"
       THEN pc' = "returned" /\ ret' = statErr
       ELSE pc' = "spawnPoller" /\ ret' = ret
    /\ UNCHANGED <<config, wait, dir, printIdx, output, pollerVars, scanPc,
                   emitted, progressChan, doneChan, fmtVars, extVars>>

\* A variant of SpawnPoller that starts the poller whatever showProgress is.
SpawnPollerAlways ==
    /\ pc = "spawnPoller"
    /\ wait' = wait + 1
    /\ pollerPc' = "erase"
    /\ pc' = "spawnScan"
    /\ UNCHANGED <<config, ret, dir, printIdx, output, progress, i, received,
                   doneObserved, scanPc, emitted, progressChan, doneChan, fmtVars,
                   devVars, ignoreVars, scanStarts, dirWrites, colorVars>>
    /\ pollerStarts' = pollerStarts + 1

\* A variant of SpawnPoller that forgets wait.Add(1).
SpawnPollerNoAdd ==
    /\ pc = "spawnPoller"
    /\ IF showProgress
       THEN wait' = wait /\ pollerPc' = "erase"
       ELSE wait' = wait /\ pollerPc' = pollerPc
    /\ pc' = "spawnScan"
    /\ UNCHANGED <<config, ret, dir, printIdx, output, progress, i, received,
                   doneObserved, scanPc, emitted, progressChan, doneChan, fmtVars,
                   devVars, ignoreVars, scanStarts, dirWrites, colorVars>>
    /\ pollerStarts' = IF showProgress THEN pollerStarts + 1 ELSE pollerStarts

\* if ui.showProgress { wait.Add(1); go func() { ... ui.updateProgress() }() }
SpawnPoller ==
    /\ pc = "spawnPoller"
    /\ IF showProgress
       THEN wait' = wait + 1 /\ pollerPc' = "erase"
       ELSE wait' = wait /\ pollerPc' = pollerPc
    /\ pc' = "spawnScan"
    /\ UNCHANGED <<config, ret, dir, printIdx, output, progress, i, received,
                   doneObserved, scanPc, emitted, progressChan, doneChan, fmtVars,
                   devVars, ignoreVars, scanStarts, dirWrites, colorVars>>
    /\ pollerStarts' = IF showProgress THEN pollerStarts + 1 ELSE pollerStarts

\* A variant of SpawnScan that returns at once when the root is ignored.
SpawnScanUnlessIgnored ==
    /\ pc = "spawnScan"
    /\ IF ShouldDirBeIgnored(RootPath)
       THEN pc' = "returned" /\ ret' = "nil" /\ wait' = wait /\ scanPc' = scanPc
       ELSE pc' = "wait" /\ ret' = ret /\ wait' = wait + 1 /\ scanPc' = "running"
    /\ UNCHANGED <<config, dir, printIdx, output, pollerVars, emitted,
                   progressChan, doneChan, fmtVars,
                   devVars, ignoreVars, pollerStarts, dirWrites, colorVars>>
    /\ scanStarts' = IF ShouldDirBeIgnored(RootPath) THEN scanStarts ELSE scanStarts + 1

\* A variant of SpawnScan in which the coordinator also assigns dir.
SpawnScanPresettingDir ==
    /\ pc = "spawnScan"
    /\ wait' = wait + 1
    /\ scanPc' = "running"
    /\ pc' = "wait"
    /\ dir' = [isNil |-> FALSE, Files |-> << >>]
    /\ dirWrites' = dirWrites + 1
    /\ scanStarts' = scanStarts + 1
    /\ UNCHANGED <<config, ret, printIdx, output, pollerVars, emitted,
                   progressChan, doneChan, fmtVars, devVars, ignoreVars,
                   pollerStarts, colorVars>>

\* wait.Add(1); go func() { ... dir = ui.analyzer.AnalyzeDir(...) }()
SpawnScan ==
    /\ pc = "spawnScan"
    /\ wait' = wait + 1
    /\ scanPc' = "running"
    /\ pc' = "wait"
    /\ UNCHANGED <<config, ret, dir, printIdx, output, pollerVars, emitted,
                   progressChan, doneChan, fmtVars,
                   devVars, ignoreVars, pollerStarts, dirWrites, colorVars>>
    /\ scanStarts' = scanStarts + 1

\* A variant of Wait that does not block.
WaitNoBarrier ==
    /\ pc = "wait"
    /\ pc' = "sort"
    /\ UNCHANGED <<config, ret, wait, dir, printIdx, output, pollerVars, scanPc,
                   emitted, progressChan, doneChan, fmtVars, extVars>>

\* wait.Wait()
Wait ==
    /\ pc = "wait"
    /\ wait = 0
    /\ pc' = "sort"
    /\ UNCHANGED <<config, ret, wait, dir, printIdx, output, pollerVars, scanPc,
                   emitted, progressChan, doneChan, fmtVars, extVars>>

\* sort.Sort(dir.Files); a nil dir panics
Sort ==
    /\ pc = "sort"
    /\ IF dir.isNil
       THEN pc' = "panic" /\ dir' = dir /\ printIdx' = printIdx
       ELSE /\ \E impl \in SortImpls :
                 dir' = [dir EXCEPT !.Files = sortSort(impl, dir.Files)]
            /\ pc' = "print"
            /\ printIdx' = 1
    /\ UNCHANGED <<config, ret, wait, output, pollerVars, scanPc, emitted,
                   progressChan, doneChan, fmtVars, extVars>>

\* A variant of PrintLine that prints no line for an entry flagged "!".
PrintLineSkippingErrors ==
    /\ pc = "print"
    /\ printIdx <= Len(dir.Files)
    /\ IF dir.Files[printIdx].flag = "!"
       THEN output' = output
       ELSE Write(Line(dir.Files[printIdx]))
    /\ printIdx' = printIdx + 1
    /\ UNCHANGED <<config, pc, ret, wait, dir, pollerVars, scanPc, emitted,
                   progressChan, doneChan, fmtVars, extVars>>

\* one turn of `for _, file := range dir.Files { fmt.Fprintf(ui.output, ...) }`
PrintLine ==
    /\ pc = "print"
    /\ printIdx <= Len(dir.Files)
    /\ Write(Line(dir.Files[printIdx]))
    /\ printIdx' = printIdx + 1
    /\ UNCHANGED <<config, pc, ret, wait, dir, pollerVars, scanPc, emitted,
                   progressChan, doneChan, fmtVars, extVars>>

\* return nil
Return ==
    /\ pc = "print"
    /\ printIdx > Len(dir.Files)
    /\ pc' = "returned"
    /\ ret' = "nil"
    /\ UNCHANGED <<config, wait, dir, printIdx, output, pollerVars, scanPc,
                   emitted, progressChan, doneChan, fmtVars, extVars>>

CoordStep ==
    \/ CheckPath
    \/ SpawnPoller
    \/ SpawnScan
    \/ Wait
    \/ Sort
    \/ PrintLine
    \/ Return

-----------------------------------------------------------------------------
(* updateProgress: the progress poller *)

\* fmt.Fprint(ui.output, emptyRow), at the top of every turn of the loop
PollerErase ==
    /\ pollerPc = "erase"
    /\ Write(EraseRow)
    /\ pollerPc' = "select"
    /\ UNCHANGED <<config, coordVars, wait, dir, progress, i, received,
                   doneObserved, scanPc, emitted, progressChan, doneChan, fmtVars, extVars>>

\* A variant of PollerRecvProgress whose select has a default case: with
\* nothing to receive it renders the snapshot it already holds.
PollerRecvProgressOrDefault ==
    /\ pollerPc = "select"
    /\ IF progressChan # << >>
       THEN /\ progress' = Head(progressChan)
            /\ progressChan' = Tail(progressChan)
            /\ received' = received + 1
       ELSE UNCHANGED <<progress, progressChan, received>>
    /\ pollerPc' = "spinner"
    /\ UNCHANGED <<config, coordVars, wait, dir, output, i, doneObserved, scanPc,
                   emitted, doneChan, fmtVars, extVars>>

\* select { case progress = <-progressChan: ... }
PollerRecvProgress ==
    /\ pollerPc = "select"
    /\ progressChan # << >>
    /\ progress' = Head(progressChan)
    /\ progressChan' = Tail(progressChan)
    /\ received' = received + 1
    /\ pollerPc' = "spinner"
    /\ UNCHANGED <<config, coordVars, wait, dir, output, i, doneObserved, scanPc,
                   emitted, doneChan, fmtVars, extVars>>

\* A variant of PollerRecvDone that stays in the loop.
PollerRecvDoneNoReturn ==
    /\ pollerPc = "select"
    /\ doneChan > 0
    /\ doneChan' = doneChan - 1
    /\ doneObserved' = doneObserved + 1
    /\ pollerPc' = "erase"
    /\ UNCHANGED <<config, coordVars, wait, dir, output, progress, i, received,
                   scanPc, emitted, progressChan, fmtVars, extVars>>

\* select { ... case <-doneChan: ... }
PollerRecvDone ==
    /\ pollerPc = "select"
    /\ doneChan > 0
    /\ doneChan' = doneChan - 1
    /\ doneObserved' = doneObserved + 1
    /\ pollerPc' = "cr"
    /\ UNCHANGED <<config, coordVars, wait, dir, output, progress, i, received,
                   scanPc, emitted, progressChan, fmtVars, extVars>>

\* A variant of PollerCr that returns without the carriage return.
PollerCrSkipped ==
    /\ pollerPc = "cr"
    /\ pollerPc' = "deferDone"
    /\ UNCHANGED <<config, coordVars, wait, dir, output, progress, i, received,
                   doneObserved, scanPc, emitted, progressChan, doneChan, fmtVars,
                   extVars>>

\* fmt.Fprint(ui.output, "\r"); return
PollerCr ==
    /\ pollerPc = "cr"
    /\ Write(CarriageReturn)
    /\ pollerPc' = "deferDone"
    /\ UNCHANGED <<config, coordVars, wait, dir, progress, i, received,
                   doneObserved, scanPc, emitted, progressChan, doneChan, fmtVars, extVars>>

\* fmt.Fprintf(ui.output, "\r %s ", string(progressRunes[i]))
PollerSpinner ==
    /\ pollerPc = "spinner"
    /\ Write(Spinner(i))
    /\ pollerPc' = "text"
    /\ UNCHANGED <<config, coordVars, wait, dir, progress, i, received,
                   doneObserved, scanPc, emitted, progressChan, doneChan, fmtVars, extVars>>

\* A variant of PollerText that leaves out `i %= 10`.
PollerTextNoWrap ==
    /\ pollerPc = "text"
    /\ Write(ProgressText(progress))
    /\ i' = i + 1
    /\ pollerPc' = "erase"
    /\ UNCHANGED <<config, coordVars, wait, dir, progress, received, doneObserved,
                   scanPc, emitted, progressChan, doneChan, fmtVars, extVars>>

\* fmt.Fprint(ui.output, "Scanning... Total items: " ...); time.Sleep; i++; i %= 10
PollerText ==
    /\ pollerPc = "text"
    /\ Write(ProgressText(progress))
    /\ i' = (i + 1) % 10
    /\ pollerPc' = "erase"
    /\ UNCHANGED <<config, coordVars, wait, dir, progress, received, doneObserved,
                   scanPc, emitted, progressChan, doneChan, fmtVars, extVars>>

\* defer wait.Done() of the poller's goroutine
PollerWaitDone ==
    /\ pollerPc = "deferDone"
    /\ wait' = wait - 1
    /\ pollerPc' = "terminated"
    /\ UNCHANGED <<config, coordVars, dir, output, progress, i, received,
                   doneObserved, scanPc, emitted, progressChan, doneChan, fmtVars, extVars>>

PollerStep ==
    \/ PollerErase
    \/ PollerRecvProgress
    \/ PollerRecvDone
    \/ PollerCr
    \/ PollerSpinner
    \/ PollerText
    \/ PollerWaitDone

-----------------------------------------------------------------------------
(* The scan goroutine and the analyzer it calls *)

\* the snapshot after `n` items
Snapshot(n) == [ItemCount |-> n, TotalSize |-> n * BytesPerItem]

\* AnalyzeDir, scanning: the analyzer publishes its latest snapshot in the
\* single slot of the progress feed, never waiting for a reader
ScanEmit ==
    /\ scanPc = "running"
    /\ emitted < snapLimit
    /\ emitted' = emitted + 1
    /\ progressChan' = <<Snapshot(emitted + 1)>>
    /\ UNCHANGED <<config, coordVars, wait, dir, output, pollerVars, scanPc,
                   doneChan, fmtVars, extVars>>

\* AnalyzeDir, finished: the analyzer signals completion once
ScanSignalDone ==
    /\ scanPc = "running"
    /\ doneChan' = doneChan + 1
    /\ scanPc' = "returning"
    /\ UNCHANGED <<config, coordVars, wait, dir, output, pollerVars, emitted,
                   progressChan, fmtVars, extVars>>

\* dir = ui.analyzer.AnalyzeDir(abspath, ui.ShouldDirBeIgnored)
ScanReturn ==
    /\ scanPc = "returning"
    /\ dir' = [isNil |-> FALSE, Files |-> Scanned(fsFiles)]
    /\ scanPc' = "deferDone"
    /\ UNCHANGED <<config, coordVars, wait, output, pollerVars, emitted,
                   progressChan, doneChan, fmtVars,
                   devVars, ignoreVars, scanStarts, pollerStarts, colorVars>>
    /\ dirWrites' = dirWrites + 1

\* defer wait.Done() of the scan's goroutine
ScanWaitDone ==
    /\ scanPc = "deferDone"
    /\ wait' = wait - 1
    /\ scanPc' = "terminated"
    /\ UNCHANGED <<config, coordVars, dir, output, pollerVars, emitted,
                   progressChan, doneChan, fmtVars, extVars>>

ScanStep ==
    \/ ScanEmit
    \/ ScanSignalDone
    \/ ScanReturn
    \/ ScanWaitDone

-----------------------------------------------------------------------------
(* Specifications *)

Next == CoordStep \/ PollerStep \/ ScanStep

Spec == Init /\ [][Next]_vars

\* Every goroutine that can take a step eventually takes one.
FairSpec ==
    /\ Spec
    /\ WF_vars(CoordStep)
    /\ WF_vars(PollerStep)
    /\ WF_vars(ScanStep)

\* AnalyzePath on longer child lists.
InitSort ==
    /\ showProgress \in BOOLEAN
    /\ showApparentSize \in BOOLEAN
    /\ useColors = FALSE
    /\ statErr = "nil"
    /\ fsFiles \in FileLists(MaxSortFiles, SortKinds)
    /\ snapLimit = MaxSnapshots
    /\ Idle
    /\ fmtIn = <<0, 0>>
    /\ fmtOut = << >>
    /\ ExtIdle

SpecSort == InitSort /\ [][Next]_vars

-----------------------------------------------------------------------------
(* formatSize on its own *)

\* how far around each threshold the byte counts of SpecFormat are drawn
FormatSpread == 1

Around(n) == { m \in (n - FormatSpread)..(n + FormatSpread) : m >= 0 }

\* byte counts around 0, 10^3, 10^6, 10^9 and 10^12
FormatInputs ==
    { <<h, l>> : h \in Around(0) \cup Around(1) \cup Around(1000) \cup Around(Million),
                 l \in { m \in Around(0) \cup Around(1000) \cup Around(Million - 1) :
                           m < Million } }

InitFormat ==
    /\ showProgress = FALSE
    /\ showApparentSize = FALSE
    /\ useColors = FALSE
    /\ statErr = "nil"
    /\ fsFiles = << >>
    /\ snapLimit = 0
    /\ Idle
    /\ fmtIn \in FormatInputs
    /\ fmtOut = << >>
    /\ ExtIdle

\* ui.formatSize(fmtIn)
FormatCall ==
    /\ fmtOut = << >>
    /\ fmtOut' = <<formatSize(fmtIn)>>
    /\ UNCHANGED <<config, coordVars, wait, dir, output, pollerVars, scanPc,
                   emitted, progressChan, doneChan, fmtIn, extVars>>

NextFormat == FormatCall

SpecFormat == InitFormat /\ [][NextFormat]_vars

-----------------------------------------------------------------------------
(* ListDevices *)

\* most devices the provider reports
MaxDevices == 2

\* The devices the provider may report; a name is its sequence of bytes.
DeviceKinds ==
    { [Name |-> <<"s", "d", "a", "1">>, Size |-> 1000, Free |-> 400,
       MountPoint |-> "/"],
      [Name |-> <<"s", "d", "b">>, Size |-> 3, Free |-> 1, MountPoint |-> "/mnt"],
      [Name |-> <<"n", "v", "m", "e", "0", "n", "1", "p", "1">>, Size |-> 0,
       Free |-> 0, MountPoint |-> "/proc"] }

\* what GetDevicesInfo may answer: an error, or a list of devices
GetterResults ==
    { [err |-> "EIO", devices |-> << >>] } \cup
    { [err |-> "nil", devices |-> d] :
        d \in UNION { [1..m -> DeviceKinds] : m \in 0..MaxDevices } }

maxInt(x, y) == IF x > y THEN x ELSE y

\* maxLength(devices, func(device) string { return device.Name })
RECURSIVE maxLength(_)
maxLength(list) ==
    IF list = << >> THEN 0
    ELSE LET rest == maxLength(SubSeq(list, 1, Len(list) - 1))
             s == list[Len(list)].Name
         IN  IF Len(s) > rest THEN Len(s) ELSE rest

\* maxInt(maxLength(devices, ...), len("Devices"))
maxDeviceNameLenght(devices) == maxInt(maxLength(devices), 7)

\* the value n as "%.f%%" prints it, or one of float64's special values
Percent(special, n) == [special |-> special, val |-> n]

\* math.Round(float64(Size-Free) / float64(Size) * 100): the quotient rounded
\* half away from zero; dividing by a zero Size gives NaN (0/0) or an infinity
usedPercent(device) ==
    LET used == device.Size - device.Free
    IN  IF device.Size = 0
        THEN IF used = 0 THEN Percent("NaN", 0)
             ELSE IF used > 0 THEN Percent("+Inf", 0) ELSE Percent("-Inf", 0)
        ELSE IF used >= 0
             THEN Percent("", (200 * used + device.Size) \div (2 * device.Size))
             ELSE Percent("", 0 - ((200 * (0 - used) + device.Size) \div (2 * device.Size)))

\* the header line: Device, Size, Used, Free, Used%, Mount point
DeviceHeader(devices) ==
    [k |-> "devheader", nameWidth |-> maxDeviceNameLenght(devices)]

\* one device's line, in the widths of lineFormat
DeviceRow(devices, device) ==
    [k |-> "devrow",
     nameWidth |-> maxDeviceNameLenght(devices),
     sizeWidth |-> IF useColors THEN 20 ELSE 9,
     percentWidth |-> IF useColors THEN 16 ELSE 5,
     name |-> device.Name,
     size |-> formatSize(Int64(device.Size)),
     used |-> formatSize(Int64(device.Size - device.Free)),
     free |-> formatSize(Int64(device.Free)),
     percent |-> usedPercent(device),
     mount |-> device.MountPoint]

devRest == <<config, coordVars, wait, dir, pollerVars, scanPc, emitted,
             progressChan, doneChan, fmtVars, getter, ignoreVars, countVars,
             colorVars>>

\* A variant of GetDevicesInfo that goes on after an error.
GetDevicesInfoIgnoringErr ==
    /\ devPc = "start"
    /\ devPc' = "header"
    /\ UNCHANGED <<devRest, output, devRet, devIdx>>

\* devices, err := getter.GetDevicesInfo(); if err != nil { return err }
GetDevicesInfo ==
    /\ devPc = "start"
    /\ IF getter.err # "nil"
       THEN devPc' = "returned" /\ devRet' = getter.err
       ELSE devPc' = "header" /\ devRet' = devRet
    /\ UNCHANGED <<devRest, output, devIdx>>

\* fmt.Fprintf(ui.output, <header format>, "Device", "Size", ...)
PrintDeviceHeader ==
    /\ devPc = "header"
    /\ Write(DeviceHeader(getter.devices))
    /\ devPc' = "rows"
    /\ devIdx' = 1
    /\ UNCHANGED <<devRest, devRet>>

\* one turn of `for _, device := range devices { ... fmt.Fprintf(...) }`
PrintDeviceRow ==
    /\ devPc = "rows"
    /\ devIdx <= Len(getter.devices)
    /\ Write(DeviceRow(getter.devices, getter.devices[devIdx]))
    /\ devIdx' = devIdx + 1
    /\ UNCHANGED <<devRest, devPc, devRet>>

\* return nil
ReturnDevices ==
    /\ devPc = "rows"
    /\ devIdx > Len(getter.devices)
    /\ devPc' = "returned"
    /\ devRet' = "nil"
    /\ UNCHANGED <<devRest, output, devIdx>>

InitDevices ==
    /\ showProgress = FALSE
    /\ showApparentSize = FALSE
    /\ useColors \in BOOLEAN
    /\ statErr = "nil"
    /\ fsFiles = << >>
    /\ snapLimit = 0
    /\ Idle
    /\ fmtIn = <<0, 0>>
    /\ fmtOut = << >>
    /\ getter \in GetterResults
    /\ devPc = "start"
    /\ devRet = "none"
    /\ devIdx = 0
    /\ IgnoreIdle
    /\ CountIdle
    /\ Created

NextDevices ==
    \/ GetDevicesInfo
    \/ PrintDeviceHeader
    \/ PrintDeviceRow
    \/ ReturnDevices

SpecDevices == InitDevices /\ [][NextDevices]_vars

-----------------------------------------------------------------------------
(* SetIgnoreDirPaths *)

\* most SetIgnoreDirPaths calls
MaxSetCalls == 2
\* most paths in one SetIgnoreDirPaths call
MaxPathArgs == 2

\* the scanned root of SpecIgnore: a directory named 1 and a file named 2
IgnoreFiles ==
    Named(<< [usage |-> 2, size |-> 1, isDir |-> TRUE, flag |-> " "],
             [usage |-> 1, size |-> 2, isDir |-> FALSE, flag |-> " "] >>)

\* the paths SetIgnoreDirPaths is given
PathPool == {RootPath, OtherPath} \cup {IgnoreFiles[c].name : c \in 1..Len(IgnoreFiles)}

PathLists == UNION { [1..m -> PathPool] : m \in 0..MaxPathArgs }

ignoreRest == <<config, coordVars, wait, dir, output, pollerVars, scanPc, emitted,
                progressChan, doneChan, fmtVars, devVars, countVars, colorVars>>

\* A variant of SetIgnoreDirPaths that adds to the map it finds.
SetIgnoreDirPathsAdding ==
    /\ pc \in {"check", "returned"}
    /\ setCalls < MaxSetCalls
    /\ \E paths \in PathLists :
          /\ ignoreDirPaths' = ignoreDirPaths \cup {paths[c] : c \in 1..Len(paths)}
          /\ lastPaths' = paths
    /\ setCalls' = setCalls + 1
    /\ UNCHANGED ignoreRest

\* SetIgnoreDirPaths(paths): a new map with one key per path; called while no
\* scan is running
SetIgnoreDirPaths ==
    /\ pc \in {"check", "returned"}
    /\ setCalls < MaxSetCalls
    /\ \E paths \in PathLists :
          /\ ignoreDirPaths' = {paths[c] : c \in 1..Len(paths)}
          /\ lastPaths' = paths
    /\ setCalls' = setCalls + 1
    /\ UNCHANGED ignoreRest

InitIgnore ==
    /\ showProgress \in BOOLEAN
    /\ showApparentSize = FALSE
    /\ useColors = FALSE
    /\ statErr = "nil"
    /\ fsFiles = IgnoreFiles
    /\ snapLimit = 1
    /\ Idle
    /\ fmtIn = <<0, 0>>
    /\ fmtOut = << >>
    /\ DevIdle
    /\ IgnoreIdle
    /\ CountIdle
    /\ Created

NextIgnore == SetIgnoreDirPaths \/ Next

SpecIgnore == InitIgnore /\ [][NextIgnore]_vars

-----------------------------------------------------------------------------
(* AnalyzePath on a scan long enough for the spinner to come round *)

\* the snapshots the long scan publishes: one more than progressRunes holds
MaxSpinnerSnapshots == 11

InitSpinner ==
    /\ showProgress = TRUE
    /\ showApparentSize = FALSE
    /\ useColors \in BOOLEAN
    /\ statErr = "nil"
    /\ fsFiles = IgnoreFiles
    /\ snapLimit = MaxSpinnerSnapshots
    /\ Idle
    /\ fmtIn = <<0, 0>>
    /\ fmtOut = << >>
    /\ ExtIdle

SpecSpinner == InitSpinner /\ [][Next]_vars

-----------------------------------------------------------------------------
(* CreateStdoutUI *)

\* the UIs a run creates
MaxUIs == 2

colorRest == <<config, coordVars, wait, dir, output, pollerVars, scanPc, emitted,
               progressChan, doneChan, fmtVars, devVars, ignoreVars, countVars>>

\* A variant of CreateStdoutUI that sets the toggle from its argument.
CreateStdoutUIAssigning ==
    /\ Len(uis) < MaxUIs
    /\ \E colors, progressBar, apparent \in BOOLEAN :
          /\ uis' = Append(uis, NewUI(colors, progressBar, apparent))
          /\ NoColor' = ~colors
    /\ UNCHANGED colorRest

\* ui := &UI{...}; if !useColors { color.NoColor = true }; return ui
CreateStdoutUI ==
    /\ Len(uis) < MaxUIs
    /\ \E colors, progressBar, apparent \in BOOLEAN :
          /\ uis' = Append(uis, NewUI(colors, progressBar, apparent))
          /\ NoColor' = IF ~colors THEN TRUE ELSE NoColor
    /\ UNCHANGED colorRest

\* ui.AnalyzePath(path) is called on one of the UIs created
AnalyzePathCall ==
    /\ pc = "noCall"
    /\ \E k \in 1..Len(uis) :
          /\ useColors' = uis[k].useColors
          /\ showProgress' = uis[k].showProgress
          /\ showApparentSize' = uis[k].showApparentSize
    /\ pc' = "check"
    /\ UNCHANGED <<statErr, fsFiles, snapLimit, ret, printIdx, wait, dir, output,
                   pollerVars, scanPc, emitted, progressChan, doneChan, fmtVars,
                   extVars>>

\* no UI exists yet; the toggle is as the colour library found the terminal
InitColor ==
    /\ showProgress = FALSE
    /\ showApparentSize = FALSE
    /\ useColors = FALSE
    /\ statErr = "nil"
    /\ fsFiles = IgnoreFiles
    /\ snapLimit = 1
    /\ pc = "noCall"
    /\ ret = "none"
    /\ wait = 0
    /\ dir = NoDir
    /\ printIdx = 0
    /\ output = << >>
    /\ pollerPc = "notStarted"
    /\ progress = [ItemCount |-> 0, TotalSize |-> 0]
    /\ i = 0
    /\ received = 0
    /\ doneObserved = 0
    /\ scanPc = "notStarted"
    /\ emitted = 0
    /\ progressChan = << >>
    /\ doneChan = 0
    /\ fmtIn = <<0, 0>>
    /\ fmtOut = << >>
    /\ DevIdle
    /\ IgnoreIdle
    /\ CountIdle
    /\ NoColor \in BOOLEAN
    /\ uis = << >>

NextColor == CreateStdoutUI \/ AnalyzePathCall \/ Next

SpecColor == InitColor /\ [][NextColor]_vars

-----------------------------------------------------------------------------
(* Properties *)

\* the listing lines written so far, in order
Lines == SelectSeq(output, LAMBDA t : t.k = "line")

\* the progress lines written so far, in order
ProgressLines == SelectSeq(output, LAMBDA t : t.k = "progress")

PollerRunning == pollerPc \notin {"notStarted", "terminated"}

\* the coordinator is at or past its first read of dir
ReadingResult == pc \in {"sort", "print", "panic"} \/ (pc = "returned" /\ ret = "nil")

\* C1: the coordinator reads the scan result (sorts dir.Files, iterates it)
\* only after the scan goroutine has terminated and, if showProgress, the
\* poller has terminated too; the result is then set.
C1_ReadAfterBarrier ==
    ReadingResult =>
        /\ scanPc = "terminated"
        /\ showProgress => pollerPc = "terminated"
        /\ ~dir.isNil
        /\ pc # "panic"

C1_Witness ==
    /\ pc = "print"
    /\ printIdx = 2
    /\ showProgress
    /\ received > 0

\* C2: when a snapshot and the completion signal are both ready at the
\* poller's select, completion wins: the poller does not take the snapshot.
C2_CompletionWins ==
    [][(pollerPc = "select" /\ progressChan # << >> /\ doneChan > 0)
          => pollerPc' # "spinner"]_vars

\* C3: with showProgress, the poller observes completion at most once, and
\* once the path check has passed AnalyzePath returns, the poller having
\* terminated after observing completion exactly once.
C3_PollerTerminates ==
    /\ [](doneObserved <= 1)
    /\ (showProgress /\ pc = "spawnPoller")
          ~> (pc = "returned" /\ ret = "nil" /\ pollerPc = "terminated"
              /\ doneObserved = 1)

C3_Witness ==
    /\ showProgress
    /\ pc = "returned"
    /\ pollerPc = "terminated"
    /\ doneObserved = 1
    /\ received = MaxSnapshots

\* C4: if the path check fails, AnalyzePath returns that error: no goroutine
\* is started, AnalyzeDir is not called and nothing is written.
C4_FailedCheckDoesNothing ==
    statErr # "nil" =>
        /\ pc \in {"check", "returned"}
        /\ pc = "returned" => ret = statErr
        /\ scanPc = "notStarted"
        /\ pollerPc = "notStarted"
        /\ wait = 0
        /\ emitted = 0
        /\ doneChan = 0
        /\ dir.isNil
        /\ output = << >>

C4_Witness ==
    /\ statErr = "ENOENT"
    /\ pc = "returned"
    /\ ret = "ENOENT"

\* C5: for both values of showApparentSize, the sizes shown in consecutive
\* listing lines never increase.
C5_ListingNonIncreasing ==
    \A a \in 1..(Len(Lines) - 1) : ~Greater(Lines[a + 1].size.of, Lines[a].size.of)

\* C6: two children of equal size in the configured metric are listed in the
\* order in which the analyzer returned them (names are positions in that
\* order).
C6_SortStable ==
    \A a \in 1..Len(Lines) : \A b \in 1..Len(Lines) :
        (a < b /\ Lines[a].size.of = Lines[b].size.of) => Lines[a].name < Lines[b].name

\* C7: the poller and the coordinator never write concurrently: no poller
\* write follows a listing line, and the poller is not running while the
\* coordinator prints.
C7_WritersNeverOverlap ==
    /\ \A a \in 1..Len(output) : \A b \in 1..Len(output) :
          (a < b /\ output[a].k = "line") => output[b].k = "line"
    /\ PollerRunning => Lines = << >>

C7_Witness ==
    /\ showProgress
    /\ pc = "returned"
    /\ Len(Lines) = 2
    /\ Len(ProgressLines) > 0

\* C8: without showProgress no poller is started: the analyzer's feeds are
\* never read (they hold what the analyzer put there), only listing lines are
\* written, and the barrier opens once the scan goroutine has terminated.
C8_NoProgressActivity ==
    ~showProgress =>
        /\ pollerPc = "notStarted"
        /\ received = 0
        /\ doneObserved = 0
        /\ progressChan = IF emitted = 0 THEN << >> ELSE <<Snapshot(emitted)>>
        /\ doneChan = IF scanPc \in {"notStarted", "running"} THEN 0 ELSE 1
        /\ \A a \in 1..Len(output) : output[a].k = "line"
        /\ scanPc = "terminated" => wait = 0

C8_Witness ==
    /\ ~showProgress
    /\ pc = "sort"
    /\ emitted > 0
    /\ scanPc = "terminated"

\* C9: once the path check has passed, the only value AnalyzePath returns is
\* nil, and it has then printed exactly one line for every child of the root,
\* with the child's flag, whatever the flags are.
C9_CompleteListing ==
    statErr = "nil" =>
        /\ ret \in {"none", "nil"}
        /\ pc # "panic"
        /\ pc = "returned" =>
              /\ ret = "nil"
              /\ Len(Lines) = Len(fsFiles)
              /\ \A c \in 1..Len(fsFiles) :
                    /\ Cardinality({a \in 1..Len(Lines) : Lines[a].name = c}) = 1
                    /\ \A a \in 1..Len(Lines) :
                          Lines[a].name = c => Lines[a].flag = fsFiles[c].flag

C9_Witness ==
    /\ pc = "returned"
    /\ ret = "nil"
    /\ Len(fsFiles) = 2
    /\ \E c \in 1..Len(fsFiles) : fsFiles[c].flag = "!"
    /\ \E c \in 1..Len(fsFiles) : fsFiles[c].flag = " "

\* the byte count <<h, l>> exceeds 10^3, 10^6, 10^9, 10^12
Above3(b) == b[1] > 0 \/ b[2] > 1000
Above6(b) == b[1] > 1 \/ (b[1] = 1 /\ b[2] > 0)
Above9(b) == b[1] > 1000 \/ (b[1] = 1000 /\ b[2] > 0)
Above12(b) == b[1] > Million \/ (b[1] = Million /\ b[2] > 0)

\* C10: formatSize picks TiB iff b > 10^12, else GiB iff b > 10^9, else MiB
\* iff b > 10^6, else KiB iff b > 10^3, else B; 999 and 1000 give B, and
\* 1001, 10^6+1, 10^9+1, 10^12+1 give KiB, MiB, GiB, TiB.
C10_UnitThresholds ==
    fmtOut # << >> =>
        LET u == fmtOut[1].unit
            b == fmtIn
        IN  /\ u = "TiB" <=> Above12(b)
            /\ u = "GiB" <=> (~Above12(b) /\ Above9(b))
            /\ u = "MiB" <=> (~Above9(b) /\ Above6(b))
            /\ u = "KiB" <=> (~Above6(b) /\ Above3(b))
            /\ u = "B" <=> ~Above3(b)
            /\ b = <<0, 999>> => u = "B"
            /\ b = <<0, 1000>> => u = "B"
            /\ b = <<0, 1001>> => u = "KiB"
            /\ b = <<1, 1>> => u = "MiB"
            /\ b = <<1000, 1>> => u = "GiB"
            /\ b = <<Million, 1>> => u = "TiB"

C10_Witness ==
    /\ fmtIn = <<0, 1000>>
    /\ fmtOut # << >>
    /\ fmtOut[1].unit = "B"

\* the device lines written so far, in order
DeviceRows == SelectSeq(output, LAMBDA t : t.k = "devrow")

\* C11: if GetDevicesInfo returns an error, ListDevices returns that error
\* and writes nothing: no header and no device row.
C11_DeviceErrorReturned ==
    getter.err # "nil" =>
        /\ output = << >>
        /\ devPc \in {"start", "returned"}
        /\ devPc = "returned" => devRet = getter.err

C11_Witness ==
    /\ getter.err = "EIO"
    /\ devPc = "returned"
    /\ devRet = "EIO"

\* C12: ListDevices returns with one row per device, and the row of a device
\* of size 0 shows a defined sentinel in Used%: 0% or a not-applicable marker.
C12_ZeroSizeSentinel ==
    (devPc = "returned" /\ devRet = "nil") =>
        /\ Len(DeviceRows) = Len(getter.devices)
        /\ \A d \in 1..Len(DeviceRows) :
              /\ DeviceRows[d].name = getter.devices[d].Name
              /\ getter.devices[d].Size = 0 =>
                    DeviceRows[d].percent \in {Percent("", 0), Percent("n/a", 0)}

\* C13: ShouldDirBeIgnored(p) is true exactly when p is among the paths of
\* the latest SetIgnoreDirPaths call, and false for every path when there was
\* no call; this holds in every state, so no other operation changes the set.
C13_IgnoreSetIsLatestCall ==
    \A p \in PathPool :
        ShouldDirBeIgnored(p) <=>
            (setCalls > 0 /\ \E c \in 1..Len(lastPaths) : lastPaths[c] = p)

C13_Witness ==
    /\ setCalls = 2
    /\ lastPaths = <<OtherPath>>
    /\ pc = "returned"
    /\ ~ShouldDirBeIgnored(RootPath)

\* C14: with the root's own path in the ignore set, AnalyzePath does not
\* return before it has run the scan on that root and printed the root's
\* children (those not ignored themselves).
C14_RootNeverFiltered ==
    [][(ShouldDirBeIgnored(RootPath) /\ pc # "returned" /\ pc' = "returned")
          => /\ ret' = "nil"
             /\ scanPc' = "terminated"
             /\ {Lines[a].name : a \in 1..Len(Lines)} =
                   {fsFiles[c].name : c \in
                       {d \in 1..Len(fsFiles) :
                           ~(fsFiles[d].isDir /\ ShouldDirBeIgnored(fsFiles[d].name))}}
             /\ Lines # << >>]_vars

C14_Witness ==
    /\ ShouldDirBeIgnored(RootPath)
    /\ pc = "print"
    /\ printIdx > Len(dir.Files)
    /\ Len(Lines) = 2

\* what the poller has written so far, in order
PollerWrites == SelectSeq(output, LAMBDA t : t.k \in {"erase", "spinner", "progress", "cr"})

\* C15: once the poller has observed the completion signal it takes nothing
\* more from the progress feed, and when it has returned its last two writes
\* are the line erase and the carriage return.
C15_NothingAfterCompletion ==
    /\ [][doneObserved >= 1 => received' = received]_vars
    /\ [](pollerPc \in {"deferDone", "terminated"} =>
            /\ Len(PollerWrites) >= 2
            /\ PollerWrites[Len(PollerWrites)].k = "cr"
            /\ PollerWrites[Len(PollerWrites) - 1].k = "erase")

C15_Witness ==
    /\ pollerPc = "terminated"
    /\ pc = "returned"
    /\ doneObserved = 1
    /\ progressChan # << >>

\* AnalyzePath has passed the path check and started its goroutines
Started == pc \in {"wait", "sort", "print"} \/ (pc = "returned" /\ ret = "nil")

\* C16: a call that passes the path check starts exactly one scan goroutine
\* and one poller iff showProgress (none otherwise); dir is assigned exactly
\* once, by the scan goroutine's return from AnalyzeDir and by nothing else.
C16_OneScanOnePollerOneWrite ==
    /\ [](/\ scanStarts <= 1
          /\ pollerStarts <= 1
          /\ dirWrites <= 1
          /\ Started => /\ scanStarts = 1
                        /\ pollerStarts = IF showProgress THEN 1 ELSE 0
          /\ (pc = "returned" /\ ret = "nil") => dirWrites = 1)
    /\ [][(dirWrites' # dirWrites \/ dir'.isNil # dir.isNil)
             => (scanPc = "returning" /\ scanPc' = "deferDone")]_vars

C16_Witness ==
    /\ pc = "returned"
    /\ ret = "nil"
    /\ showProgress
    /\ scanStarts = 1
    /\ pollerStarts = 1
    /\ dirWrites = 1

\* the poller has received a snapshot it has not finished rendering
Rendering == pollerPc \in {"spinner", "text"}

\* C17: the poller renders each snapshot it receives exactly once: there are
\* as many progress lines as snapshots received (less the one being
\* rendered), none before the first snapshot; `progress` changes only by a
\* receive from the feed, and the newest progress line shows its item count
\* and total size.
C17_EachSnapshotRenderedOnce ==
    /\ [](/\ Len(ProgressLines) = received - (IF Rendering THEN 1 ELSE 0)
          /\ (received >= 1 /\ ~Rendering) =>
                 ProgressLines[Len(ProgressLines)] = ProgressText(progress))
    /\ [][progress' # progress =>
             /\ progressChan # << >>
             /\ progress' = Head(progressChan)
             /\ received' = received + 1
             /\ ~Rendering]_vars
    /\ [][Len(ProgressLines') > Len(ProgressLines) =>
             /\ pollerPc = "text"
             /\ ProgressLines' = Append(ProgressLines, ProgressText(progress))]_vars

C17_Witness ==
    /\ pollerPc = "terminated"
    /\ received = 2
    /\ emitted = 3
    /\ Len(ProgressLines) = 2
    /\ ProgressLines[1].items < ProgressLines[2].items
    /\ ProgressLines[2].items = progress.ItemCount

\* the spinner glyphs written so far, in order
Spinners == SelectSeq(output, LAMBDA t : t.k = "spinner")

\* C18: the spinner index is always in 0..9; it is 0 when the poller starts
\* and moves by exactly one modulo 10 with each rendered snapshot, so the
\* k-th rendered snapshot (from 0) is drawn with glyph k mod 10.
C18_SpinnerIndexCycles ==
    /\ [](/\ i \in 0..9
          /\ i = Len(ProgressLines) % 10
          /\ \A k \in 1..Len(Spinners) : Spinners[k].glyph = (k - 1) % 10)
    /\ [][i' # i =>
             /\ i' = (i + 1) % 10
             /\ Len(ProgressLines') = Len(ProgressLines) + 1]_vars

C18_Witness ==
    /\ pollerPc = "terminated"
    /\ Len(Spinners) = 11
    /\ Spinners[10].glyph = 9
    /\ Spinners[11].glyph = 0
    /\ i = 1

\* C19: CreateStdoutUI only ever switches the colour toggle off: once set it
\* stays set, it is set whenever a UI was created with useColors false, also
\* after later UIs are created with useColors true, and a UI with useColors
\* true prints its listing in the wide fields whatever the toggle is.
C19_ColorsOnlySwitchedOff ==
    /\ [][NoColor => NoColor']_vars
    /\ []((\E k \in 1..Len(uis) : ~uis[k].useColors) => NoColor)
    /\ []((pc # "noCall" /\ useColors) =>
              \A n \in 1..Len(Lines) : Lines[n].width = 20)

C19_Witness ==
    /\ Len(uis) = 2
    /\ ~uis[1].useColors
    /\ uis[2].useColors
    /\ NoColor
    /\ useColors
    /\ pc = "returned"
    /\ Len(Lines) = Len(fsFiles)
    /\ Lines[1].width = 20

=============================================================================
